---- MODULE Spec2Model ----
(***************************************************************************)
(* askama-enum: #[derive(EnumTemplate)].                                   *)
(*                                                                         *)
(* The derive macro is modelled as a state machine over one invocation:   *)
(* the input syntax tree `ast` is chosen in Init, the steps of            *)
(* derive_enum_template follow one another, and once the macro has        *)
(* returned generated code, values of the enum are rendered through the   *)
(* generated `render` / `render_into` / `Display::fmt`.                   *)
(*                                                                         *)
(* Identifiers are sequences of one-character strings, so that            *)
(* format!("_{}_{}_{}", ..) is a real concatenation.  Option<T> is <<>>   *)
(* (None) or <<x>> (Some(x)).  Indices are 0-based as in the source;      *)
(* sequences are 1-based, so variant `index` is ast.variants[index + 1].  *)
(***************************************************************************)
EXTENDS Naturals, Sequences, FiniteSets

VARIABLES
    ast,                      \* the parsed DeriveInput (lib.rs:90)
    pc,                       \* position inside derive_enum_template
    global_meta,              \* lib.rs:108
    index,                    \* position of the .enumerate() of lib.rs:360-363
    default_variant_name,     \* lib.rs:125
    variant_definitions,      \* lib.rs:126 (the Ok values collected so far)
    match_render_impl,        \* lib.rs:132
    match_render_into_impl,   \* lib.rs:133
    dflt_or_fst_variant_name, \* lib.rs:139
    static_ty_generics,       \* lib.rs:142
    result,                   \* what the macro returned (or that it panicked)
    value,                    \* run time: the enum value being rendered
    render_out,               \* run time: what value.render() returned
    fmt_out                   \* run time: what Display::fmt(value, f) did

vars == <<ast, pc, global_meta, index, default_variant_name, variant_definitions,
          match_render_impl, match_render_into_impl, dflt_or_fst_variant_name,
          static_ty_generics, result, value, render_out, fmt_out>>

-----------------------------------------------------------------------------
(* Bounds of the explored inputs.                                          *)

MaxVariants == 2

\* total number of attributes on the enum and its variants together
MaxAttrs == 3

MaxFields == 2

MaxGenerics == 2

\* attributes on one variant, where every shape of attribute is tried
MaxShapeAttrs == 2

-----------------------------------------------------------------------------
(* Generic helpers.                                                        *)

None == <<>>

Some(x) == <<x>>

IsSome(o) == o # <<>>

Unwrap(o) == o[1]

DigitChars == <<"0", "1", "2", "3", "4", "5", "6", "7", "8", "9">>

\* Display of a usize: its decimal digits, most significant first.
RECURSIVE Decimal(_)
Decimal(n) ==
    IF n < 10 THEN <<DigitChars[n + 1]>>
    ELSE Decimal(n \div 10) \o <<DigitChars[(n % 10) + 1]>>

RECURSIVE SumTo(_, _)
SumTo(f, n) == IF n < 0 THEN 0 ELSE f[n] + SumTo(f, n - 1)

Min(S) == CHOOSE x \in S : \A y \in S : x <= y

-----------------------------------------------------------------------------
(* Spans: where a diagnostic is anchored.                                  *)

SpanDataToken == [kind |-> "data_token", scope |-> 0, pos |-> 0]

\* the path of the attribute at position pos of scope (0: the enum, i+1: variant i)
SpanAttrPath(attr) == [kind |-> "attr_path", scope |-> attr.at[1], pos |-> attr.at[2]]

\* a slip: the diagnostic anchored at the enum's identifier
SpanVariantIdent_enum(i) == [kind |-> "variant_ident", scope |-> 0, pos |-> 0]

SpanVariantIdent(i) == [kind |-> "variant_ident", scope |-> i + 1, pos |-> 0]

\* fail_at: a compile_error!{} token stream anchored at the span
fail_at(spanned, msg) == [tag |-> "compile_error", span |-> spanned, msg |-> msg]

MsgOnlyEnums == "#[derive(EnumTemplate)] can only be used with enums"

MsgDupType == "cannot have more than one #[template] attribute for a type"

MsgDupVariant == "cannot have more than one #[template] attribute for a variant"

MsgNeed == "need a #[template] attribute"

-----------------------------------------------------------------------------
(* Stage 1: the attributes (lib.rs:108-123 and lib.rs:369-384).            *)

\* a slip: any meta item taken, not only a list
parse_meta_list_any_shape(attr) ==
    IF attr.shape # "Invalid" THEN Some([path |-> attr.path, at |-> attr.at]) ELSE None

\* attr.parse_meta() matched against Ok(syn::Meta::List(..)): Some(meta_list), or
\* None for `_ => continue` (a path, a name-value pair, or an attribute that
\* does not parse as a meta item).
parse_meta_list(attr) ==
    IF attr.shape = "List" THEN Some([path |-> attr.path, at |-> attr.at]) ELSE None

\* meta_list.path.is_ident("template")
is_template(meta_list) == meta_list.path = "template"

\* One iteration of the loop of lib.rs:109-123.
global_meta_step(acc, attr) ==
    LET meta_list == parse_meta_list(attr) IN
    IF ~IsSome(meta_list) THEN [err |-> None, meta |-> acc]
    ELSE IF ~is_template(Unwrap(meta_list)) THEN [err |-> None, meta |-> acc]
    ELSE IF IsSome(acc)
         THEN [err |-> Some(fail_at(SpanAttrPath(Unwrap(meta_list)), MsgDupType)),
               meta |-> acc]
         ELSE [err |-> None, meta |-> Some(attr)]

\* The loop of lib.rs:109-123 from attribute i on; it returns at the first error.
RECURSIVE global_meta_loop(_, _, _)
global_meta_loop(attrs, i, acc) ==
    IF i > Len(attrs) THEN [err |-> None, meta |-> acc]
    ELSE LET r == global_meta_step(acc, attrs[i]) IN
         IF IsSome(r.err) THEN r ELSE global_meta_loop(attrs, i + 1, r.meta)

\* a slip: no duplicate check, the last annotation wins
local_meta_step_last_wins(acc, attr) ==
    LET meta_list == parse_meta_list(attr) IN
    IF ~IsSome(meta_list) THEN [err |-> None, meta |-> acc]
    ELSE IF ~is_template(Unwrap(meta_list)) THEN [err |-> None, meta |-> acc]
    ELSE [err |-> None, meta |-> Some(attr)]

\* One iteration of the loop of lib.rs:370-384.
local_meta_step(acc, attr) ==
    LET meta_list == parse_meta_list(attr) IN
    IF ~IsSome(meta_list) THEN [err |-> None, meta |-> acc]
    ELSE IF ~is_template(Unwrap(meta_list)) THEN [err |-> None, meta |-> acc]
    ELSE IF IsSome(acc)
         THEN [err |-> Some(fail_at(SpanAttrPath(Unwrap(meta_list)), MsgDupVariant)),
               meta |-> acc]
         ELSE [err |-> None, meta |-> Some(attr)]

RECURSIVE local_meta_loop(_, _, _)
local_meta_loop(attrs, i, acc) ==
    IF i > Len(attrs) THEN [err |-> None, meta |-> acc]
    ELSE LET r == local_meta_step(acc, attrs[i]) IN
         IF IsSome(r.err) THEN r ELSE local_meta_loop(attrs, i + 1, r.meta)

-----------------------------------------------------------------------------
(* Stage 2: one auxiliary struct per variant (lib.rs:354-488).             *)

\* a slip: the index left out of the name
variant_name_no_index(enum_ident, i, variant_ident) ==
    <<"_">> \o enum_ident \o <<"_">> \o variant_ident

\* format!("_{}_{}_{}", &ast.ident, index, variant.ident) of lib.rs:364
variant_name(enum_ident, i, variant_ident) ==
    <<"_">> \o enum_ident \o <<"_">> \o Decimal(i) \o <<"_">> \o variant_ident

\* format!("'{}", variant_name) of lib.rs:366
variant_lifetime(name) == <<"'">> \o name

\* a slip: the first variant is the default, annotated or not
update_default_first(dflt, local_meta, name) ==
    IF ~IsSome(dflt) THEN Some(name) ELSE dflt

\* lib.rs:385-387
update_default_variant_name(dflt, local_meta, name) ==
    IF ~IsSome(local_meta) /\ ~IsSome(dflt) THEN Some(name) ELSE dflt

\* a slip: global_meta.or(local_meta)
resolve_meta_global_first(local_meta, global) ==
    IF IsSome(global) THEN global ELSE local_meta

\* local_meta.or(global_meta) of lib.rs:388
resolve_meta(local_meta, global) ==
    IF IsSome(local_meta) THEN local_meta ELSE global

\* What TypeGenerics prints (split_for_impl().1): the parameters' names, the
\* lifetimes first, then the type and const parameters, each group in order.
ty_generics(params) ==
    SelectSeq(params, LAMBDA p : p.kind = "Lifetime")
        \o SelectSeq(params, LAMBDA p : p.kind # "Lifetime")

\* lib.rs:395-397
phantom_type(lifetime, enum_ident, generic_params) ==
    [kind |-> "PhantomData",
     lifetime |-> lifetime,
     elem |-> [enum |-> enum_ident,
               args |-> [k \in 1..Len(ty_generics(generic_params)) |->
                            ty_generics(generic_params)[k].ident]]]

\* lib.rs:403-412 and 430-439: the field, retyped to a reference
ref_field(field, lifetime) ==
    [ident |-> field.ident,
     ty |-> [kind |-> "Reference", lifetime |-> lifetime, elem |-> field.ty]]

\* a slip: the phantom marker put first
aux_fields_phantom_first(fields, name, lifetime, phantom) ==
    LET refs == [k \in 1..Len(fields.list) |-> ref_field(fields.list[k], lifetime)] IN
    IF fields.kind = "Named"
    THEN [kind |-> "Named", list |-> <<[ident |-> Some(name), ty |-> phantom]>> \o refs]
    ELSE [kind |-> "Unnamed", list |-> <<[ident |-> None, ty |-> phantom]>> \o refs]

\* lib.rs:398-463
aux_fields(fields, name, lifetime, phantom) ==
    LET refs == [k \in 1..Len(fields.list) |-> ref_field(fields.list[k], lifetime)] IN
    CASE fields.kind = "Named" ->
            [kind |-> "Named",
             list |-> Append(refs, [ident |-> Some(name), ty |-> phantom])]
      [] fields.kind = "Unnamed" ->
            [kind |-> "Unnamed",
             list |-> Append(refs, [ident |-> None, ty |-> phantom])]
      [] fields.kind = "Unit" ->
            [kind |-> "Unnamed",
             list |-> <<[ident |-> None, ty |-> phantom]>>]

DeriveAttr == [path |-> "derive", shape |-> "List", at |-> <<0, 0>>]

LifetimeParam(lifetime) == [kind |-> "Lifetime", ident |-> lifetime]

\* The closure of lib.rs:363-486 for variant i: Err(diagnostic), or
\* Ok(the auxiliary struct); `dflt` is default_variant_name after the call.
variant_definition(tree, global, dflt, i) ==
    LET variant == tree.variants[i + 1]
        name == variant_name(tree.ident, i, variant.ident)
        lifetime == variant_lifetime(name)
        scan == local_meta_loop(variant.attrs, 1, None)
        local_meta == scan.meta
        dflt2 == update_default_variant_name(dflt, local_meta, name)
        meta == resolve_meta(local_meta, global)
    IN
    IF IsSome(scan.err)
    THEN [err |-> scan.err, def |-> None, dflt |-> dflt]
    ELSE IF ~IsSome(meta)
    THEN [err |-> Some(fail_at(SpanVariantIdent(i), MsgNeed)), def |-> None,
          dflt |-> dflt2]
    ELSE [err |-> None,
          def |-> Some([attrs |-> <<DeriveAttr, Unwrap(meta)>>,
                        ident |-> name,
                        generics |-> Append(tree.generics, LifetimeParam(lifetime)),
                        fields |-> aux_fields(variant.fields, name, lifetime,
                                      phantom_type(lifetime, tree.ident,
                                                   tree.generics))]),
          dflt |-> dflt2]

-----------------------------------------------------------------------------
(* Stage 3: the two match expressions (lib.rs:198-352).                    *)

\* a slip: the arms numbered from one
arm_variant_name_one_based(enum_ident, i, variant_ident) ==
    <<"_">> \o enum_ident \o <<"_">> \o Decimal(i + 1) \o <<"_">> \o variant_ident

\* format!("_{}_{}_{}", &ast.ident, index, variant.ident) of lib.rs:216
arm_variant_name(enum_ident, i, variant_ident) ==
    <<"_">> \o enum_ident \o <<"_">> \o Decimal(i) \o <<"_">> \o variant_ident

\* format!("_{}", index) of lib.rs:226 and lib.rs:274
tmp_name(k) == <<"_">> \o Decimal(k)

PhantomData == <<"PhantomData">>

\* lib.rs:204-207: the enum's generics and '_, as a turbofish
inst_ty_generics(params) ==
    LET g == ty_generics(Append(params, LifetimeParam(<<"'", "_">>))) IN
    [k \in 1..Len(g) |-> g[k].ident]

\* lib.rs:220-322: the pattern and the constructed auxiliary value of one arm
arm_pat_base(variant, name, turbofish) ==
    LET n == Len(variant.fields.list)
        tmp_names == [k \in 1..n |-> tmp_name(k - 1)]
    IN
    CASE variant.fields.kind = "Named" ->
            [pat |-> [kind |-> "Struct", variant |-> variant.ident,
                      elems |-> [k \in 1..n |->
                                    [member |-> variant.fields.list[k].ident,
                                     pat |-> tmp_names[k]]]],
             base |-> [kind |-> "Struct", path |-> name, turbofish |-> turbofish,
                       fields |-> [k \in 1..n |->
                                      [member |-> variant.fields.list[k].ident,
                                       expr |-> tmp_names[k]]]
                                  \o <<[member |-> Some(name), expr |-> PhantomData]>>]]
      [] variant.fields.kind = "Unnamed" ->
            [pat |-> [kind |-> "TupleStruct", variant |-> variant.ident,
                      elems |-> [k \in 1..n |-> [member |-> None, pat |-> tmp_names[k]]]],
             base |-> [kind |-> "Call", path |-> name, turbofish |-> turbofish,
                       fields |-> [k \in 1..n |-> [member |-> None, expr |-> tmp_names[k]]]
                                  \o <<[member |-> None, expr |-> PhantomData]>>]]
      [] variant.fields.kind = "Unit" ->
            [pat |-> [kind |-> "Path", variant |-> variant.ident, elems |-> <<>>],
             base |-> [kind |-> "Call", path |-> name, turbofish |-> turbofish,
                       fields |-> <<[member |-> None, expr |-> PhantomData]>>]]

\* The closure of lib.rs:213-343: the arm of variant i.
make_arm(tree, i, meth_name, args) ==
    LET variant == tree.variants[i + 1]
        name == arm_variant_name(tree.ident, i, variant.ident)
        pb == arm_pat_base(variant, name, inst_ty_generics(tree.generics))
    IN  [pat |-> pb.pat, guard |-> None,
         body |-> [base |-> pb.base, method |-> meth_name, args |-> args]]

\* lib.rs:198-352: match self { one arm per variant, in order }
make_render_impl(tree, meth_name, args) ==
    [expr |-> "self",
     arms |-> [k \in 1..Len(tree.variants) |-> make_arm(tree, k - 1, meth_name, args)]]

\* Punctuated::new() of lib.rs:132
render_args == <<>>

\* a slip: the writer not passed on
render_into_args_none == <<>>

\* Punctuated::from_iter([syn::Expr::Path(parse_quote!(writer))]) of lib.rs:137
render_into_args == <<"writer">>

-----------------------------------------------------------------------------
(* Stage 4: the default variant, the static generics, the emitted code.   *)

\* lib.rs:139-140: Some(name), or None where variant_definitions[0] is out of
\* bounds and the macro panics.
pick_dflt_or_fst(dflt, defs) ==
    IF IsSome(dflt) THEN dflt
    ELSE IF Len(defs) > 0 THEN Some(defs[1].ident)
    ELSE None

Punct(s) == [t |-> "Punct", v |-> <<s>>]

IdentTok(id) == [t |-> "Ident", v |-> id]

\* lib.rs:143-153: the tokens appended for the parameters from position k on
RECURSIVE static_params(_, _)
static_params(params, k) ==
    IF k > Len(params) THEN <<>>
    ELSE (IF params[k].kind \in {"Type", "Const"}
          THEN <<IdentTok(params[k].ident)>>
          ELSE <<>>) \o static_params(params, k + 1)

\* lib.rs:142-154
make_static_ty_generics(params) ==
    <<Punct("::"), Punct("<")>> \o static_params(params, 1) \o <<Punct(">")>>

\* lib.rs:187-192: the body of Display::fmt
display_impl ==
    [callee |-> "askama::Template::render_into", args |-> <<"self", "f">>,
     map_err |-> "fmt::Error"]

\* lib.rs:156-195
emit(tree, m_render, m_render_into, dflt, static_generics, defs) ==
    [tag |-> "code",
     enum |-> tree.ident,
     render |-> m_render,
     render_into |-> m_render_into,
     consts |-> [k \in {"EXTENSION", "SIZE_HINT", "MIME_TYPE"} |->
                    [ty |-> dflt, generics |-> static_generics]],
     definitions |-> defs,
     display |-> display_impl]

Panicked == [tag |-> "panic"]

NotReturned == [tag |-> "running"]

-----------------------------------------------------------------------------
(* Run time: what the generated code does with a value of the enum.  The   *)
(* template engine is external: the Template impl that askama derives for  *)
(* an auxiliary struct renders the struct's #[template] attribute over the *)
(* struct's fields, and fails when formatting a field fails.               *)

\* the field value whose formatting fails
BadValue == "err"

FieldValues == {"a", "b", BadValue}

\* The pattern of an arm, `Self::X`, `Self::X(..)` or `Self::X {..}`, matches
\* the values whose variant is named X.
pat_matches(tree, pat, v) == pat.variant = tree.variants[v.variant + 1].ident

\* the references the pattern binds: tmp name -> field value
bind(variant, pat, v) ==
    [k \in 1..Len(pat.elems) |->
        [name |-> pat.elems[k].pat,
         val |-> IF pat.kind = "Struct"
                 THEN v.fields[CHOOSE j \in 1..Len(variant.fields.list) :
                                   variant.fields.list[j].ident = pat.elems[k].member]
                 ELSE v.fields[k]]]

lookup(env, name) == env[CHOOSE k \in 1..Len(env) : env[k].name = name].val

\* the struct expression / call expression of the arm, evaluated
construct(base, env) ==
    [ty |-> base.path,
     fields |-> [k \in 1..Len(base.fields) |->
                    [member |-> base.fields[k].member,
                     val |-> IF base.fields[k].expr = PhantomData
                             THEN "PhantomData"
                             ELSE lookup(env, base.fields[k].expr)]]]

\* #[derive(askama::Template)] on the auxiliary struct `def`, rendering `aux`
askama_render(def, aux) ==
    LET ctx == SelectSeq(aux.fields, LAMBDA f : f.val # "PhantomData") IN
    IF \E k \in 1..Len(ctx) : ctx[k].val = BadValue
    THEN [ok |-> FALSE, out |-> None]
    ELSE [ok |-> TRUE, out |-> Some([template |-> def.attrs[2], ctx |-> ctx])]

IllTyped == [ok |-> FALSE, out |-> Some("does not compile")]

\* match self { arms }: the first arm whose pattern matches, its auxiliary
\* value, and the method called on it
eval_match(tree, defs, m, v) ==
    LET ks == {k \in 1..Len(m.arms) : pat_matches(tree, m.arms[k].pat, v)} IN
    IF ks = {} THEN [method |-> "", args |-> <<>>, r |-> IllTyped]
    ELSE LET arm == m.arms[Min(ks)]
             aux == construct(arm.body.base,
                              bind(tree.variants[v.variant + 1], arm.pat, v))
             ds == {k \in 1..Len(defs) : defs[k].ident = aux.ty}
         IN  IF ds = {} THEN [method |-> "", args |-> <<>>, r |-> IllTyped]
             ELSE [method |-> arm.body.method, args |-> arm.body.args,
                   r |-> askama_render(defs[Min(ds)], aux)]

\* fn render(&self) -> askama::Result<String> { #match_render_impl }
union_render(tree, code, v) ==
    LET e == eval_match(tree, code.definitions, code.render, v) IN
    IF e.method = "render" /\ e.args = <<>> THEN
        IF e.r.ok THEN [ok |-> TRUE, out |-> e.r.out, err |-> None]
        ELSE [ok |-> FALSE, out |-> None, err |-> Some("askama::Error")]
    ELSE [ok |-> FALSE, out |-> None, err |-> Some("does not compile")]

\* fn render_into(&self, writer) -> askama::Result<()> { #match_render_into_impl }
\* `out` is what was written to the writer.
union_render_into(tree, code, v) ==
    LET e == eval_match(tree, code.definitions, code.render_into, v) IN
    IF e.method = "render_into" /\ e.args = <<"writer">> THEN
        IF e.r.ok THEN [ok |-> TRUE, out |-> e.r.out, err |-> None]
        ELSE [ok |-> FALSE, out |-> None, err |-> Some("askama::Error")]
    ELSE [ok |-> FALSE, out |-> None, err |-> Some("does not compile")]

\* askama::Template::render_into(self, f).map_err(|_| ::std::fmt::Error {})
display_fmt(tree, code, v) ==
    LET r == union_render_into(tree, code, v) IN
    IF code.display.callee = "askama::Template::render_into"
    THEN IF r.ok THEN r ELSE [ok |-> FALSE, out |-> None, err |-> Some(code.display.map_err)]
    ELSE [ok |-> FALSE, out |-> None, err |-> Some("does not compile")]

\* <ty ::< .. > as askama::Template>: the tokens between `<` and `>` are
\* generic arguments separated by commas.
well_formed_args(tokens) ==
    LET inner == SubSeq(tokens, 3, Len(tokens) - 1) IN
    /\ Len(inner) = 0 \/ Len(inner) % 2 = 1
    /\ \A k \in 1..Len(inner) :
          IF k % 2 = 1 THEN inner[k].t = "Ident" ELSE inner[k] = Punct(",")

\* The emitted items are accepted by the compiler: the variants and the
\* auxiliary structs have distinct names, every arm calls the method of its
\* entry point with that entry point's arguments on a struct that exists, the
\* constants name a struct that exists, with a well-formed argument list.
compiles(tree, code) ==
    /\ \A j, k \in 1..Len(tree.variants) :
          tree.variants[j].ident = tree.variants[k].ident => j = k
    /\ \A j, k \in 1..Len(code.definitions) :
          code.definitions[j].ident = code.definitions[k].ident => j = k
    /\ Len(code.render.arms) = Len(tree.variants)
    /\ Len(code.render_into.arms) = Len(tree.variants)
    /\ \A k \in 1..Len(code.render.arms) :
          /\ code.render.arms[k].body.method = "render"
          /\ code.render.arms[k].body.args = <<>>
          /\ \E d \in 1..Len(code.definitions) :
                code.definitions[d].ident = code.render.arms[k].body.base.path
    /\ \A k \in 1..Len(code.render_into.arms) :
          /\ code.render_into.arms[k].body.method = "render_into"
          /\ code.render_into.arms[k].body.args = <<"writer">>
          /\ \E d \in 1..Len(code.definitions) :
                code.definitions[d].ident = code.render_into.arms[k].body.base.path
    /\ \A c \in DOMAIN code.consts :
          /\ well_formed_args(code.consts[c].generics)
          /\ \E d \in 1..Len(code.definitions) :
                code.definitions[d].ident = code.consts[c].ty

\* the values of the enum: a variant and a value for each of its fields
Values(tree) ==
    UNION {{[variant |-> i, fields |-> fs] :
               fs \in [1..Len(tree.variants[i + 1].fields.list) -> FieldValues]} :
           i \in 0..(Len(tree.variants) - 1)}

-----------------------------------------------------------------------------
(* The inputs: syntactically valid type definitions, as syn parses them.   *)

\* the attributes that occur: #[template(..)], #[template], #[doc(..)]
AttrKinds ==
    {[path |-> "template", shape |-> "List"],
     [path |-> "template", shape |-> "Path"],
     [path |-> "doc", shape |-> "List"]}

\* an attribute; `at` (scope, position) is where it stands, and stands for its
\* tokens as well: no two attributes of an input are the same tokens
Attr(kind, scope, pos) == [path |-> kind.path, shape |-> kind.shape, at |-> <<scope, pos>>]

TemplateAttr(scope, pos) == Attr([path |-> "template", shape |-> "List"], scope, pos)

FieldsOf(kind, n) ==
    [kind |-> kind,
     list |-> [k \in 1..n |->
                  [ident |-> IF kind = "Named" THEN Some(<<"f">> \o Decimal(k - 1))
                             ELSE None,
                   ty |-> [kind |-> "Path", name |-> <<"T">> \o Decimal(k - 1)]]]]

FieldShapes ==
    {FieldsOf("Unit", 0)}
        \cup {FieldsOf(kind, n) : kind \in {"Named", "Unnamed"}, n \in 0..MaxFields}

\* the shapes of the crate's tests: A, B(&'a T), C { some, more }
ShapeAt(i) ==
    CASE i % 3 = 0 -> FieldsOf("Unit", 0)
      [] i % 3 = 1 -> FieldsOf("Unnamed", 1)
      [] i % 3 = 2 -> FieldsOf("Named", 2)

IdentAt(i) == <<"V">> \o Decimal(i)

EnumIdent == <<"E">>

\* identifiers with underscores and digits in them, as Rust allows
Idents ==
    {<<"A">>, <<"B">>, <<"A", "_", "0", "_">>, <<"_", "0", "_", "A">>,
     <<"A", "_", "1">>, <<"_", "B">>}

GenericParam(kind, k) ==
    [kind |-> kind,
     ident |-> CASE kind = "Lifetime" -> <<"'", "l">> \o Decimal(k)
                 [] kind = "Type" -> <<"T">> \o Decimal(k)
                 [] kind = "Const" -> <<"N">> \o Decimal(k)]

GenericLists ==
    UNION {{[k \in 1..n |-> GenericParam(kinds[k], k - 1)] :
               kinds \in [1..n -> {"Lifetime", "Type", "Const"}]} : n \in 0..MaxGenerics}

Input(kind, ident, attrs, generics, variants) ==
    [kind |-> kind, ident |-> ident, attrs |-> attrs, generics |-> generics,
     variants |-> variants]

\* how many attributes each scope (0: the enum, i + 1: variant i) carries
AttrCounts(nv) == {l \in [0..nv -> 0..MaxAttrs] : SumTo(l, nv) <= MaxAttrs}

ScopeAttrs(l, flat, scope) ==
    [p \in 1..l[scope] |-> Attr(flat[SumTo(l, scope - 1) + p], scope, p)]

\* enums with every placement of at most MaxAttrs attributes
AttrInputs ==
    UNION {UNION {{Input("Enum", EnumIdent, ScopeAttrs(l, flat, 0), <<>>,
                         [i \in 1..nv |->
                             [ident |-> IdentAt(i - 1),
                              attrs |-> ScopeAttrs(l, flat, i),
                              fields |-> ShapeAt(i - 1)]]) :
                      flat \in [1..SumTo(l, nv) -> AttrKinds]} :
                  l \in AttrCounts(nv)} :
           nv \in 0..MaxVariants}

\* structs and unions, with attributes
KindInputs ==
    UNION {{Input(kind, EnumIdent, [p \in 1..n |-> Attr(flat[p], 0, p)], <<>>, <<>>) :
               kind \in {"Struct", "Union"}, flat \in [1..n -> AttrKinds]} :
           n \in 0..MaxAttrs}

\* enums with a default template and every shape of fields
FieldInputs ==
    UNION {{Input("Enum", EnumIdent, <<TemplateAttr(0, 1)>>, <<>>,
                  [i \in 1..nv |->
                      [ident |-> IdentAt(i - 1), attrs |-> <<>>, fields |-> shapes[i]]]) :
               shapes \in [1..nv -> FieldShapes]} :
           nv \in 1..MaxVariants}

\* enums with generic parameters
GenericInputs ==
    {Input("Enum", EnumIdent, <<TemplateAttr(0, 1)>>, generics,
           <<[ident |-> IdentAt(0),
              attrs |-> IF own THEN <<TemplateAttr(1, 1)>> ELSE <<>>,
              fields |-> ShapeAt(0)],
             [ident |-> IdentAt(1), attrs |-> <<>>, fields |-> ShapeAt(1)]>>) :
       generics \in GenericLists, own \in BOOLEAN}

\* enums and variants with every name of Idents
NameInputs ==
    UNION {{Input("Enum", ident, <<TemplateAttr(0, 1)>>, <<>>,
                  [i \in 1..nv |->
                      [ident |-> names[i], attrs |-> <<>>, fields |-> FieldsOf("Unit", 0)]]) :
               ident \in Idents, names \in [1..nv -> Idents]} :
           nv \in 1..MaxVariants}

\* every shape an attribute can have: a list #[p(..)], a path #[p], a
\* name-value pair #[p = ".."], and tokens that are no meta item #[p { .. }]
WideAttrKinds ==
    [path : {"template", "doc"}, shape : {"List", "Path", "NameValue", "Invalid"}]

\* enums whose first variant carries attributes of every shape, with or
\* without one attribute on the enum; the second variant has its own template
ShapeInputs ==
    UNION {{Input("Enum", EnumIdent, on_enum, <<>>,
                  <<[ident |-> IdentAt(0),
                     attrs |-> [p \in 1..n |-> Attr(kinds[p], 1, p)],
                     fields |-> ShapeAt(0)],
                    [ident |-> IdentAt(1), attrs |-> <<TemplateAttr(2, 1)>>,
                     fields |-> ShapeAt(1)]>>) :
               on_enum \in {<<>>} \cup {<<Attr(k, 0, 1)>> : k \in WideAttrKinds},
               kinds \in [1..n -> WideAttrKinds]} :
           n \in 0..MaxShapeAttrs}

Inputs ==
    AttrInputs \cup KindInputs \cup FieldInputs \cup GenericInputs \cup NameInputs
        \cup ShapeInputs

-----------------------------------------------------------------------------
(* The state machine.                                                      *)

\* lib.rs:90: the macro is entered with a parsed input
Init ==
    /\ ast \in Inputs
    /\ pc = "match_data"
    /\ global_meta = None
    /\ index = 0
    /\ default_variant_name = None
    /\ variant_definitions = <<>>
    /\ match_render_impl = None
    /\ match_render_into_impl = None
    /\ dflt_or_fst_variant_name = None
    /\ static_ty_generics = None
    /\ result = NotReturned
    /\ value = None
    /\ render_out = None
    /\ fmt_out = None

\* a slip: structs and unions let through
match_data_any(tree) == None

\* lib.rs:92-106: Ok for an enum, the diagnostic otherwise
match_data(tree) ==
    IF tree.kind = "Enum" THEN None ELSE Some(fail_at(SpanDataToken, MsgOnlyEnums))

\* lib.rs:92-106
MatchData ==
    /\ pc = "match_data"
    /\ IF IsSome(match_data(ast))
       THEN /\ result' = Unwrap(match_data(ast))
            /\ pc' = "returned"
       ELSE /\ result' = result
            /\ pc' = "global_meta"
    /\ UNCHANGED <<ast, global_meta, index, default_variant_name, variant_definitions,
                   match_render_impl, match_render_into_impl, dflt_or_fst_variant_name,
                   static_ty_generics, value, render_out, fmt_out>>

\* lib.rs:108-123
ScanGlobalMeta ==
    /\ pc = "global_meta"
    /\ LET r == global_meta_loop(ast.attrs, 1, None) IN
       IF IsSome(r.err)
       THEN /\ result' = Unwrap(r.err)
            /\ pc' = "returned"
            /\ global_meta' = r.meta
       ELSE /\ result' = result
            /\ pc' = "variant_definitions"
            /\ global_meta' = r.meta
    /\ UNCHANGED <<ast, index, default_variant_name, variant_definitions,
                   match_render_impl, match_render_into_impl, dflt_or_fst_variant_name,
                   static_ty_generics, value, render_out, fmt_out>>

\* lib.rs:126-131 with lib.rs:360-487: the next variant of the iterator; the
\* first Err ends the collect and the macro returns it.
MakeVariantDefinition ==
    /\ pc = "variant_definitions"
    /\ index < Len(ast.variants)
    /\ LET r == variant_definition(ast, global_meta, default_variant_name, index) IN
       /\ default_variant_name' = r.dflt
       /\ IF IsSome(r.err)
          THEN /\ result' = Unwrap(r.err)
               /\ pc' = "returned"
               /\ UNCHANGED <<index, variant_definitions>>
          ELSE /\ variant_definitions' = Append(variant_definitions, Unwrap(r.def))
               /\ index' = index + 1
               /\ UNCHANGED <<result, pc>>
    /\ UNCHANGED <<ast, global_meta, match_render_impl, match_render_into_impl,
                   dflt_or_fst_variant_name, static_ty_generics, value, render_out,
                   fmt_out>>

\* lib.rs:132-138, once the iterator is exhausted
MakeRenderImpls ==
    /\ pc = "variant_definitions"
    /\ index >= Len(ast.variants)
    /\ match_render_impl' = Some(make_render_impl(ast, "render", render_args))
    /\ match_render_into_impl' =
          Some(make_render_impl(ast, "render_into", render_into_args))
    /\ pc' = "dflt_or_fst"
    /\ UNCHANGED <<ast, global_meta, index, default_variant_name, variant_definitions,
                   dflt_or_fst_variant_name, static_ty_generics, result, value,
                   render_out, fmt_out>>

\* lib.rs:139-140
PickDefault ==
    /\ pc = "dflt_or_fst"
    /\ LET d == pick_dflt_or_fst(default_variant_name, variant_definitions) IN
       IF IsSome(d)
       THEN /\ dflt_or_fst_variant_name' = d
            /\ pc' = "static_ty_generics"
            /\ result' = result
       ELSE /\ dflt_or_fst_variant_name' = None
            /\ pc' = "returned"
            /\ result' = Panicked
    /\ UNCHANGED <<ast, global_meta, index, default_variant_name, variant_definitions,
                   match_render_impl, match_render_into_impl, static_ty_generics,
                   value, render_out, fmt_out>>

\* lib.rs:142-154
StaticTyGenerics ==
    /\ pc = "static_ty_generics"
    /\ static_ty_generics' = Some(make_static_ty_generics(ast.generics))
    /\ pc' = "emit"
    /\ UNCHANGED <<ast, global_meta, index, default_variant_name, variant_definitions,
                   match_render_impl, match_render_into_impl, dflt_or_fst_variant_name,
                   result, value, render_out, fmt_out>>

\* lib.rs:156-195
Emit ==
    /\ pc = "emit"
    /\ result' = emit(ast, Unwrap(match_render_impl), Unwrap(match_render_into_impl),
                      Unwrap(dflt_or_fst_variant_name), Unwrap(static_ty_generics),
                      variant_definitions)
    /\ pc' = "returned"
    /\ UNCHANGED <<ast, global_meta, index, default_variant_name, variant_definitions,
                   match_render_impl, match_render_into_impl, dflt_or_fst_variant_name,
                   static_ty_generics, value, render_out, fmt_out>>

\* run time: v.render() on a value of the enum (lib.rs:160-162); a behaviour
\* follows one value
CallRender ==
    /\ pc = "returned"
    /\ result.tag = "code"
    /\ value = None
    /\ compiles(ast, result)
    /\ \E v \in Values(ast) :
          /\ value' = Some(v)
          /\ render_out' = Some(union_render(ast, result, v))
          /\ fmt_out' = None
    /\ UNCHANGED <<ast, pc, global_meta, index, default_variant_name,
                   variant_definitions, match_render_impl, match_render_into_impl,
                   dflt_or_fst_variant_name, static_ty_generics, result>>

\* run time: the same value formatted, as v.to_string() does (lib.rs:187-192)
CallDisplayFmt ==
    /\ pc = "returned"
    /\ IsSome(value)
    /\ fmt_out = None
    /\ fmt_out' = Some(display_fmt(ast, result, Unwrap(value)))
    /\ UNCHANGED <<ast, pc, global_meta, index, default_variant_name,
                   variant_definitions, match_render_impl, match_render_into_impl,
                   dflt_or_fst_variant_name, static_ty_generics, result, value,
                   render_out>>

Next ==
    \/ MatchData
    \/ ScanGlobalMeta
    \/ MakeVariantDefinition
    \/ MakeRenderImpls
    \/ PickDefault
    \/ StaticTyGenerics
    \/ Emit
    \/ CallRender
    \/ CallDisplayFmt

Spec == Init /\ [][Next]_vars

-----------------------------------------------------------------------------
(* What the specification calls things, read off the input alone.          *)

\* the positions of the template annotations of an attribute list
TemplateAnnotations(attrs) ==
    {p \in 1..Len(attrs) : attrs[p].path = "template" /\ attrs[p].shape = "List"}

HasUnionSpec(tree) == TemplateAnnotations(tree.attrs) # {}

HasOwnSpec(tree, i) == TemplateAnnotations(tree.variants[i + 1].attrs) # {}

\* a variant's effective template specification: its own, else the union's
EffectiveSpec(tree, i) ==
    IF HasOwnSpec(tree, i)
    THEN tree.variants[i + 1].attrs[Min(TemplateAnnotations(tree.variants[i + 1].attrs))]
    ELSE tree.attrs[Min(TemplateAnnotations(tree.attrs))]

VariantIndices(tree) == 0..(Len(tree.variants) - 1)

\* the variants without a specification of their own
Unannotated(tree) == {i \in VariantIndices(tree) : ~HasOwnSpec(tree, i)}

\* the DefaultVariant: the first unannotated variant, else the first variant
DefaultVariant(tree) ==
    IF Unannotated(tree) # {} THEN Min(Unannotated(tree)) ELSE 0

\* a scope (0: the union, i + 1: variant i) with two or more template annotations
ScopeAttrsOf(tree, scope) ==
    IF scope = 0 THEN tree.attrs ELSE tree.variants[scope].attrs

Duplicated(tree, scope) == Cardinality(TemplateAnnotations(ScopeAttrsOf(tree, scope))) >= 2

\* the second template annotation of a scope
SecondAnnotation(tree, scope) ==
    LET ps == TemplateAnnotations(ScopeAttrsOf(tree, scope)) IN
    ScopeAttrsOf(tree, scope)[Min(ps \ {Min(ps)})]

DuplicateDiagnostic(tree, scope) ==
    [tag |-> "compile_error",
     span |-> [kind |-> "attr_path", scope |-> scope, pos |-> SecondAnnotation(tree, scope).at[2]],
     msg |-> IF scope = 0 THEN MsgDupType ELSE MsgDupVariant]

NeedDiagnostic(i) ==
    [tag |-> "compile_error",
     span |-> [kind |-> "variant_ident", scope |-> i + 1, pos |-> 0],
     msg |-> MsgNeed]

\* variant i has neither a specification of its own nor the union's
Unresolvable(tree, i) == ~HasOwnSpec(tree, i) /\ ~HasUnionSpec(tree)

\* the variants that offend: a duplicate annotation, or no specification
Offending(tree) ==
    {i \in VariantIndices(tree) : Duplicated(tree, i + 1) \/ Unresolvable(tree, i)}

Returned == pc = "returned"

-----------------------------------------------------------------------------
(* C1 *)

C1_Context(tree, v) ==
    [k \in 1..Len(v.fields) |->
        [member |-> tree.variants[v.variant + 1].fields.list[k].ident,
         val |-> v.fields[k]]]

\* what V's effective template specification produces over V's field values
C1_Expected(tree, v) ==
    IF \E k \in 1..Len(v.fields) : v.fields[k] = BadValue
    THEN [ok |-> FALSE, out |-> None, err |-> Some("askama::Error")]
    ELSE [ok |-> TRUE,
          out |-> Some([template |-> EffectiveSpec(tree, v.variant),
                        ctx |-> C1_Context(tree, v)]),
          err |-> None]

\* C1: in the code generated for a union that passes validation, the auxiliary
\* type of every variant V carries V's effective template specification (its
\* own annotation, else the union's), verbatim, and V's dispatch arm forwards
\* to that auxiliary type; rendering a value whose active variant is V yields
\* exactly what that specification produces over V's field values.
C1_RenderUsesEffectiveSpec ==
    /\ (Returned /\ result.tag = "code") =>
          \A i \in VariantIndices(ast) :
             /\ result.definitions[i + 1].attrs[2] = EffectiveSpec(ast, i)
             /\ result.render.arms[i + 1].pat.variant = ast.variants[i + 1].ident
             /\ result.render.arms[i + 1].body.base.path = result.definitions[i + 1].ident
    /\ IsSome(render_out) => Unwrap(render_out) = C1_Expected(ast, Unwrap(value))

\* a variant with its own annotation and a field, in a union that has a
\* union-level annotation as well, has been rendered
C1_Witness ==
    /\ IsSome(render_out)
    /\ Unwrap(render_out).ok
    /\ HasUnionSpec(ast)
    /\ HasOwnSpec(ast, Unwrap(value).variant)
    /\ Len(Unwrap(value).fields) > 0

-----------------------------------------------------------------------------
(* C2 *)

\* C2 as stated: a variant with neither an annotation of its own nor a
\* union-level one makes the transformation fail with "need a #[template]
\* attribute" at the identifier of such a variant; and that diagnostic is only
\* produced when such a variant exists.
C2_AsStated ==
    (Returned /\ ast.kind = "Enum") =>
        /\ (\E i \in VariantIndices(ast) : Unresolvable(ast, i)) =>
              \E j \in VariantIndices(ast) :
                 Unresolvable(ast, j) /\ result = NeedDiagnostic(j)
        /\ (result.tag = "compile_error" /\ result.msg = MsgNeed) =>
              \E i \in VariantIndices(ast) : Unresolvable(ast, i)

\* C2, amended: if some variant has neither an annotation of its own nor a
\* union-level one, the transformation fails and emits no code, and the one
\* diagnostic is that of the first offending variant in declaration order:
\* "need a #[template] attribute" at its identifier if it is such a variant,
\* the duplicate-annotation diagnostic if it carries two annotations.  When
\* every variant has its own annotation or a union-level annotation exists,
\* "need a #[template] attribute" is never produced.
C2_NeedTemplate ==
    (Returned /\ ast.kind = "Enum") =>
        /\ (\E i \in VariantIndices(ast) : Unresolvable(ast, i)) =>
              LET first == Min(Offending(ast)) IN
              /\ result.tag = "compile_error"
              /\ Unresolvable(ast, first) => result = NeedDiagnostic(first)
              /\ ~Unresolvable(ast, first) => result = DuplicateDiagnostic(ast, first + 1)
        /\ (result.tag = "compile_error" /\ result.msg = MsgNeed) =>
              \E i \in VariantIndices(ast) :
                 Unresolvable(ast, i) /\ result.span = NeedDiagnostic(i).span

\* the second variant is the first one without a specification, and the
\* macro has reported it
C2_Witness ==
    /\ Returned
    /\ Len(ast.variants) >= 2
    /\ HasOwnSpec(ast, 0)
    /\ Unresolvable(ast, 1)
    /\ result = NeedDiagnostic(1)

-----------------------------------------------------------------------------
(* C3 *)

\* the constant c of the union: the constant c that askama derives for the
\* struct the emitted path names
UnionMetadata(code, c) ==
    LET ds == {k \in 1..Len(code.definitions) :
                  code.definitions[k].ident = code.consts[c].ty}
    IN  [k \in ds |-> [const |-> c, template |-> code.definitions[k].attrs[2]]]

\* C3: EXTENSION, SIZE_HINT and MIME_TYPE of the union are those of the
\* auxiliary type of the DefaultVariant: the first variant in declaration
\* order without an annotation of its own, or the first variant if every
\* variant has one.
C3_MetadataOfDefaultVariant ==
    (Returned /\ result.tag = "code") =>
        \A c \in {"EXTENSION", "SIZE_HINT", "MIME_TYPE"} :
           /\ result.consts[c].ty = result.definitions[DefaultVariant(ast) + 1].ident
           /\ UnionMetadata(result, c) =
                 [k \in {DefaultVariant(ast) + 1} |->
                     [const |-> c, template |-> EffectiveSpec(ast, DefaultVariant(ast))]]

\* exactly one unannotated variant, and it is not the first one
C3_Witness ==
    /\ Returned
    /\ result.tag = "code"
    /\ Unannotated(ast) = {1}
    /\ result.consts["EXTENSION"].ty = result.definitions[2].ident

-----------------------------------------------------------------------------
(* C4 *)

DuplicatedScopes(tree) == {s \in 0..Len(tree.variants) : Duplicated(tree, s)}

IsDuplicateDiagnostic(r) ==
    r.tag = "compile_error" /\ r.msg \in {MsgDupType, MsgDupVariant}

\* C4 as stated: a scope with two or more template annotations makes the
\* transformation fail with the duplicate-annotation diagnostic of such a
\* scope ("for a type" / "for a variant"), anchored at its second annotation;
\* and a scope with zero or one annotation never produces it.
C4_AsStated ==
    (Returned /\ ast.kind = "Enum") =>
        /\ DuplicatedScopes(ast) # {} =>
              \E s \in DuplicatedScopes(ast) : result = DuplicateDiagnostic(ast, s)
        /\ IsDuplicateDiagnostic(result) =>
              \E s \in DuplicatedScopes(ast) : result = DuplicateDiagnostic(ast, s)

\* C4, amended: if the union's attribute list or a variant's attribute list
\* holds two or more template annotations, the transformation fails and emits
\* no code, and the one diagnostic is that of the first offending item in
\* processing order (the union's attributes, then the variants in declaration
\* order): the duplicate diagnostic of that scope, anchored at its second
\* annotation, or "need a #[template] attribute" if that item is a variant
\* with no specification.  A scope with zero or one annotation never produces
\* the duplicate diagnostic.
C4_AtMostOneAnnotation ==
    (Returned /\ ast.kind = "Enum") =>
        /\ DuplicatedScopes(ast) # {} =>
              /\ result.tag = "compile_error"
              /\ IF Duplicated(ast, 0)
                 THEN result = DuplicateDiagnostic(ast, 0)
                 ELSE LET first == Min(Offending(ast)) IN
                      IF Duplicated(ast, first + 1)
                      THEN result = DuplicateDiagnostic(ast, first + 1)
                      ELSE result = NeedDiagnostic(first)
        /\ IsDuplicateDiagnostic(result) =>
              \E s \in DuplicatedScopes(ast) : result = DuplicateDiagnostic(ast, s)

\* a variant's second annotation has been reported, an annotation that is
\* neither the first nor the last attribute of the list
C4_Witness ==
    /\ Returned
    /\ Len(ast.variants) >= 1
    /\ ~Duplicated(ast, 0)
    /\ Duplicated(ast, 1)
    /\ result = DuplicateDiagnostic(ast, 1)
    /\ result.span.pos > 2

-----------------------------------------------------------------------------
(* C5 *)

\* C5: a struct or a union is rejected with "#[derive(EnumTemplate)] can only
\* be used with enums" whatever its annotations are, and nothing else has run
\* by then: no attribute has been scanned, no variant looked at.
C5_OnlyEnums ==
    ast.kind # "Enum" =>
        /\ pc \in {"match_data", "returned"}
        /\ Returned => result = fail_at(SpanDataToken, MsgOnlyEnums)
        /\ global_meta = None
        /\ index = 0
        /\ default_variant_name = None
        /\ variant_definitions = <<>>

\* a struct with two template annotations has been rejected
C5_Witness ==
    /\ Returned
    /\ ast.kind = "Struct"
    /\ Duplicated(ast, 0)
    /\ result.msg = MsgOnlyEnums

-----------------------------------------------------------------------------
(* C6 *)

\* C6: both entry points dispatch variant V to the same auxiliary type;
\* render passes no argument on, render_into exactly the writer; the Display
\* adapter calls render_into with the formatter; what it writes is what
\* render() returns, and a render failure becomes fmt::Error.
C6_DisplayEqualsRender ==
    /\ (Returned /\ result.tag = "code") =>
          /\ Len(result.render.arms) = Len(result.render_into.arms)
          /\ \A k \in 1..Len(result.render.arms) :
                /\ result.render.arms[k].pat = result.render_into.arms[k].pat
                /\ result.render.arms[k].body.base = result.render_into.arms[k].body.base
                /\ result.render.arms[k].body.method = "render"
                /\ result.render.arms[k].body.args = <<>>
                /\ result.render_into.arms[k].body.method = "render_into"
                /\ result.render_into.arms[k].body.args = <<"writer">>
          /\ result.display.callee = "askama::Template::render_into"
          /\ result.display.args = <<"self", "f">>
    /\ IsSome(fmt_out) =>
          IF Unwrap(render_out).ok
          THEN Unwrap(fmt_out) = Unwrap(render_out)
          ELSE Unwrap(fmt_out) = [ok |-> FALSE, out |-> None, err |-> Some("fmt::Error")]

\* a value with fields has been rendered both ways
C6_Witness ==
    /\ IsSome(fmt_out)
    /\ Unwrap(fmt_out).ok
    /\ Len(Unwrap(value).fields) = MaxFields
    /\ Len(Unwrap(Unwrap(fmt_out).out).ctx) = MaxFields

-----------------------------------------------------------------------------
(* C7 *)

HasUnderscore(ident) == \E k \in 1..Len(ident) : ident[k] = "_"

\* C7 as stated: the name generated for (union, index, variant), as soon as it
\* is generated, is the name of no other triple, in this union or in another.
C7_AsStated ==
    pc = "variant_definitions" =>
    \A k \in 1..Len(variant_definitions) :
       \A u \in Idents, i \in 0..(MaxVariants - 1), v \in Idents :
          <<u, i, v>> # <<ast.ident, k - 1, ast.variants[k].ident>>
             => variant_name(u, i, v) # variant_definitions[k].ident

\* C7, amended: the names are unique among the variants of one union (two
\* distinct pairs of variant index and variant name never get the same name),
\* and across unions whose names contain no underscore; two unions of which
\* one name contains an underscore can generate the same name.
C7_UniqueNames ==
    pc = "variant_definitions" =>
    \A k \in 1..Len(variant_definitions) :
       /\ \A j \in 1..Len(variant_definitions) :
             variant_definitions[j].ident = variant_definitions[k].ident => j = k
       /\ \A u \in Idents \cup {ast.ident}, i \in 0..(MaxVariants - 1), v \in Idents :
             (/\ <<u, i, v>> # <<ast.ident, k - 1, ast.variants[k].ident>>
              /\ u = ast.ident \/ (~HasUnderscore(u) /\ ~HasUnderscore(ast.ident)))
                => variant_name(u, i, v) # variant_definitions[k].ident

\* two variants of one union with the same name have both got their type
C7_Witness ==
    /\ Len(variant_definitions) >= 2
    /\ ast.variants[1].ident = ast.variants[2].ident
    /\ HasUnderscore(ast.variants[1].ident)

-----------------------------------------------------------------------------
(* C8 *)

\* C8 as stated: the macro returns the complete implementation or a
\* diagnostic anchored to a span, and never panics.
C8_AsStated ==
    Returned =>
        \/ /\ result.tag = "code"
           /\ Len(result.definitions) = Len(ast.variants)
        \/ /\ result.tag = "compile_error"
           /\ result.span.kind \in {"data_token", "attr_path", "variant_ident"}

-----------------------------------------------------------------------------
(* C9 *)

\* the generic arguments of a token list ::< .. >: the tokens between the
\* commas
RECURSIVE SplitArgs(_, _)
SplitArgs(tokens, current) ==
    IF tokens = <<>> THEN (IF current = <<>> THEN <<>> ELSE <<current>>)
    ELSE IF Head(tokens) = Punct(",")
         THEN <<current>> \o SplitArgs(Tail(tokens), <<>>)
         ELSE SplitArgs(Tail(tokens), Append(current, Head(tokens)))

GenericArguments(tokens) == SplitArgs(SubSeq(tokens, 3, Len(tokens) - 1), <<>>)

\* the parameters that a path cannot leave out: lifetime arguments may be
\* elided, type and const arguments may not
TypeAndConstParams(params) == SelectSeq(params, LAMBDA p : p.kind # "Lifetime")

\* C9 as stated, read in the code's favour: the argument list emitted for the
\* auxiliary type of the constants names the union's parameters, each as its
\* own argument, in declaration order (at least the type and const
\* parameters, which cannot be elided).
C9_AsStated ==
    IsSome(static_ty_generics) =>
        GenericArguments(Unwrap(static_ty_generics)) =
            [k \in 1..Len(TypeAndConstParams(ast.generics)) |->
                <<IdentTok(TypeAndConstParams(ast.generics)[k].ident)>>]

-----------------------------------------------------------------------------
(* C10 *)

C10_Arms(m, tree, defs) ==
    /\ Len(m.arms) = Len(tree.variants)
    /\ Len(m.arms) = Len(defs)
    /\ \A k \in 1..Len(m.arms) :
          /\ m.arms[k].pat.kind \in {"Struct", "TupleStruct", "Path"}
          /\ m.arms[k].pat.variant = tree.variants[k].ident
          /\ m.arms[k].guard = None
          /\ m.arms[k].body.base.path = defs[k].ident
          /\ defs[k].ident = <<"_">> \o tree.ident \o <<"_">> \o Decimal(k - 1)
                                \o <<"_">> \o tree.variants[k].ident

\* C10: each of the two match expressions has one arm per declared variant,
\* in declaration order, none of them a catch-all; arm i matches variant i
\* and constructs the auxiliary type generated for variant i, so there are as
\* many arms as auxiliary types.
C10_OneArmPerVariant ==
    (Returned /\ result.tag = "code") =>
        /\ C10_Arms(result.render, ast, result.definitions)
        /\ C10_Arms(result.render_into, ast, result.definitions)

\* code for two variants of different shapes has been generated
C10_Witness ==
    /\ Returned
    /\ result.tag = "code"
    /\ Len(result.render.arms) = MaxVariants
    /\ result.render.arms[1].pat.kind # result.render.arms[2].pat.kind

-----------------------------------------------------------------------------
(* C11 *)

\* the auxiliary type of a variant: its fields, each a shared reference with
\* the type's synthetic lifetime, in order, then the phantom marker
C11_Struct(variant, def) ==
    LET n == Len(variant.fields.list) IN
    /\ Len(def.fields.list) = n + 1
    /\ def.fields.kind = (IF variant.fields.kind = "Named" THEN "Named" ELSE "Unnamed")
    /\ \A k \in 1..n :
          /\ def.fields.list[k].ident = variant.fields.list[k].ident
          /\ def.fields.list[k].ty =
                [kind |-> "Reference", lifetime |-> <<"'">> \o def.ident,
                 elem |-> variant.fields.list[k].ty]
    /\ def.fields.list[n + 1].ty.kind = "PhantomData"
    /\ def.fields.list[n + 1].ty.lifetime = <<"'">> \o def.ident
    /\ \A k \in 1..n : def.fields.list[k].ty.kind # "PhantomData"

\* the arm of a variant: one temporary per field, and the auxiliary value
\* built from them in order, then the phantom marker
C11_Arm(variant, arm) ==
    LET n == Len(variant.fields.list) IN
    /\ Len(arm.pat.elems) = n
    /\ \A j, k \in 1..n : arm.pat.elems[j].pat = arm.pat.elems[k].pat => j = k
    /\ Len(arm.body.base.fields) = n + 1
    /\ \A k \in 1..n :
          /\ arm.pat.elems[k].member = variant.fields.list[k].ident
          /\ arm.body.base.fields[k].member = variant.fields.list[k].ident
          /\ arm.body.base.fields[k].expr = arm.pat.elems[k].pat
          /\ arm.body.base.fields[k].expr # PhantomData
    /\ arm.body.base.fields[n + 1].expr = PhantomData

\* C11: for a variant with n fields the auxiliary type has n + 1 fields, the
\* n original ones in their order (names kept, positions kept), each retyped
\* to a shared reference with the variant's synthetic lifetime, and the
\* phantom marker last (a unit variant: the marker alone); the variant's arm
\* binds n temporaries and builds the auxiliary value from them in the same
\* order, the phantom marker last.
C11_FieldsPreserved ==
    (Returned /\ result.tag = "code") =>
        \A i \in VariantIndices(ast) :
           /\ C11_Struct(ast.variants[i + 1], result.definitions[i + 1])
           /\ C11_Arm(ast.variants[i + 1], result.render.arms[i + 1])
           /\ C11_Arm(ast.variants[i + 1], result.render_into.arms[i + 1])
           /\ ast.variants[i + 1].fields.kind = "Unit" =>
                 Len(result.definitions[i + 1].fields.list) = 1

\* code for a variant with named fields and a unit variant has been generated
C11_Witness ==
    /\ Returned
    /\ result.tag = "code"
    /\ Len(ast.variants) = 2
    /\ ast.variants[1].fields.kind = "Named"
    /\ Len(ast.variants[1].fields.list) = MaxFields
    /\ Len(result.definitions[1].fields.list) = MaxFields + 1
    /\ ast.variants[2].fields.kind = "Unit"

-----------------------------------------------------------------------------
(* C12 *)

\* a template annotation: named `template`, in list shape
IsTemplateAnnotation(attr) == attr.path = "template" /\ attr.shape = "List"

\* the attributes of a scope that are no template annotation
OtherAttrs(attrs) == {p \in 1..Len(attrs) : ~IsTemplateAnnotation(attrs[p])}

\* C12: an annotation that is not named `template`, or is not in list shape,
\* is absent for every decision: the duplicate diagnostic is only anchored
\* at a template annotation that follows another template annotation of its
\* scope; a variant with no template annotation, in a union with none, never
\* gets code, whatever else it carries; the DefaultVariant is the first
\* variant without a template annotation, whatever else it carries; and the
\* auxiliary types carry the derive and one template annotation, nothing else.
C12_OnlyListTemplates ==
    /\ IsSome(global_meta) => IsTemplateAnnotation(Unwrap(global_meta))
    /\ (Returned /\ ast.kind = "Enum") =>
          /\ IsDuplicateDiagnostic(result) =>
                LET attrs == ScopeAttrsOf(ast, result.span.scope) IN
                /\ IsTemplateAnnotation(attrs[result.span.pos])
                /\ \E p \in 1..(result.span.pos - 1) : IsTemplateAnnotation(attrs[p])
          /\ (\E i \in VariantIndices(ast) :
                 /\ \A p \in 1..Len(ast.variants[i + 1].attrs) :
                       ~IsTemplateAnnotation(ast.variants[i + 1].attrs[p])
                 /\ \A p \in 1..Len(ast.attrs) : ~IsTemplateAnnotation(ast.attrs[p]))
                => result.tag # "code"
          /\ result.tag = "code" =>
                /\ \A c \in DOMAIN result.consts :
                      result.consts[c].ty = result.definitions[DefaultVariant(ast) + 1].ident
                /\ \A k \in 1..Len(result.definitions) :
                      /\ Len(result.definitions[k].attrs) = 2
                      /\ result.definitions[k].attrs[1] = DeriveAttr
                      /\ IsTemplateAnnotation(result.definitions[k].attrs[2])

\* code has been generated for a union whose first variant carries a
\* `template` attribute that is no list and a list that is no `template`:
\* the variant took the union's template and is the DefaultVariant
C12_Witness ==
    /\ Returned
    /\ result.tag = "code"
    /\ Len(ast.variants) = 2
    /\ \E p \in OtherAttrs(ast.variants[1].attrs) :
          /\ ast.variants[1].attrs[p].path = "template"
          /\ ast.variants[1].attrs[p].shape = "NameValue"
    /\ \E p \in OtherAttrs(ast.variants[1].attrs) :
          /\ ast.variants[1].attrs[p].path = "doc"
          /\ ast.variants[1].attrs[p].shape = "List"
    /\ HasOwnSpec(ast, 1)
    /\ result.definitions[1].attrs[2] = ast.attrs[1]
    /\ result.consts["EXTENSION"].ty = result.definitions[1].ident

====
